---------------------------- MODULE Spec2Model ----------------------------
(***************************************************************************)
(* Model of the Aidex backend (backend/main.py, backend/agents.py): the    *)
(* /chat handler, the completion client call_gemini_api and the process-   *)
(* wide chat_sessions map.  One request of /chat is a coroutine; its steps *)
(* are the stretches of code between two awaits of call_gemini_api.        *)
(***************************************************************************)
EXTENDS Integers, Sequences, FiniteSets, TLC

(***************************************************************************)
(* Bounds of the model.                                                    *)
(***************************************************************************)
\* number of /chat requests of one run (request ids are arrival order)
MaxReqs == 2
\* number of medical exchanges already completed on session "s1" at Init
MaxPre == 5
\* number of units a client sends on the video connection
MaxFrames == 3

\* main.py:157  history[-10:]
HistoryWindow == 10

Reqs == 1..MaxReqs
SessionIds == {"s1", "s2"}

(***************************************************************************)
(* Python values that flow through the handler: a str, None, or the dict   *)
(* {"error": msg} that call_gemini_api returns on failure.                 *)
(***************************************************************************)
Text(s) == [tag |-> "text", val |-> s]
NoneValue == [tag |-> "none", val |-> ""]
ErrorPayload(s) == [tag |-> "error", val |-> s]

\* a conversation turn {"role": ..., "content": ...}
Turn(role, content) == [role |-> role, content |-> content]

\* the JSON body the handler returns
ReplyBody(v) == [key |-> "reply", val |-> v]
ErrorBody(s) == [key |-> "error", val |-> Text(s)]
NoResponse == [key |-> "none", val |-> NoneValue]

MissingKeyMessage == "GEMINI_API_KEY not found. Make sure it is set in your .env file."
UnexpectedMessage == "Unexpected response from Gemini API."
StatusMessage == "Failed to get response from Gemini API. Status: 500"
ExceptionMessage == "An exception occurred while calling Gemini API: e"
EmptyMessageError == "Message cannot be empty."
TroubleReply == "I'm sorry, I'm having trouble understanding the nature of your request right now."
RefusalMessage == "I am an AI medical assistant named Aidex. I can only answer questions related to medical symptoms, health conditions, and wellness. How can I help you with a medical topic?"

(***************************************************************************)
(* What the upstream service does with one POST: the transport raises, a   *)
(* non-200 status, or a 200 whose body has no candidates, candidates       *)
(* without content/parts, a first part without "text", or a text.          *)
(***************************************************************************)
UpException == [kind |-> "exception", text |-> ""]
UpStatus == [kind |-> "status", text |-> ""]
UpNoCandidates == [kind |-> "no_candidates", text |-> ""]
UpBadShape == [kind |-> "bad_shape", text |-> ""]
UpNoText == [kind |-> "no_text", text |-> ""]
UpText(s) == [kind |-> "text", text |-> s]

UpFailures == {UpException, UpStatus, UpNoCandidates, UpBadShape, UpNoText}

\* texts the gate model can answer with
GateTrue == "{\"is_medical\": true}"
GateFalse == "{\"is_medical\": false}"
GateNotJson == "Yes, it is medical."
GateArray == "[true]"
GateEmptyObject == "{}"
GateStringValue == "{\"is_medical\": \"yes\"}"
GateNullValue == "{\"is_medical\": null}"
GateTexts == {GateTrue, GateFalse, GateNotJson, GateArray, GateEmptyObject,
              GateStringValue, GateNullValue}

\* texts of the analysis model and of the translation model
AnalysisText == "I'm sorry to hear that. When did it start?"
TranslatedText == "Lo siento. Cuando empezo?"
TranslatedWithError == "Lo siento, fue un error. Cuando empezo?"

\* call_gemini_api: the value returned for one upstream outcome
call_gemini_api(key, up) ==
    IF ~key THEN ErrorPayload(MissingKeyMessage)
    ELSE CASE up.kind = "exception" -> ErrorPayload(ExceptionMessage)
           [] up.kind = "status" -> ErrorPayload(StatusMessage)
           [] up.kind = "no_candidates" -> ErrorPayload(UnexpectedMessage)
           [] up.kind = "bad_shape" -> ErrorPayload(ExceptionMessage)
           [] up.kind = "no_text" -> NoneValue
           [] OTHER -> Text(up.text)

(***************************************************************************)
(* json.loads(guard_response_str) followed by guard_response.get(...).     *)
(* exc is the exception json.loads raises ("" when it returns); type is    *)
(* the Python type of the parsed value; is_medical is the value under the  *)
(* key ("absent" when the object has no such key).                         *)
(***************************************************************************)
json_loads(v) ==
    IF v.tag # "text" THEN [exc |-> "TypeError", type |-> "", is_medical |-> "absent"]
    ELSE CASE v.val = GateTrue -> [exc |-> "", type |-> "dict", is_medical |-> "true"]
           [] v.val = GateFalse -> [exc |-> "", type |-> "dict", is_medical |-> "false"]
           [] v.val = GateEmptyObject -> [exc |-> "", type |-> "dict", is_medical |-> "absent"]
           [] v.val = GateStringValue -> [exc |-> "", type |-> "dict", is_medical |-> "str"]
           [] v.val = GateNullValue -> [exc |-> "", type |-> "dict", is_medical |-> "null"]
           [] v.val = GateArray -> [exc |-> "", type |-> "list", is_medical |-> "absent"]
           [] OTHER -> [exc |-> "JSONDecodeError", type |-> "", is_medical |-> "absent"]

\* a test of "is not None" in place of the truth test
TruthyNotNone(x) == x \notin {"absent", "null"}
\* a test of the key's presence in place of the truth test
TruthyKeyPresent(x) == x # "absent"
\* Python truth of guard_response.get("is_medical")
Truthy(x) == x \in {"true", "str"}

\* "error" in translated_text, for a str (substring) and for a dict (key)
ContainsError(v) ==
    CASE v.tag = "error" -> TRUE
      [] v.tag = "text" -> v.val = TranslatedWithError
      [] OTHER -> FALSE

\* language != 'en' (main.py:139)
NeedsRefusalTranslation(lang) == lang # "en"
\* language != 'en' and language != 'en-US' (main.py:161)
NeedsTranslation(lang) == lang # "en" /\ lang # "en-US"

\* agents.py:77-80  language_map
language_map == [es |-> "Spanish", hi |-> "Hindi", fr |-> "French", de |-> "German",
                 zh |-> "Chinese", ja |-> "Japanese", ru |-> "Russian",
                 ar |-> "Arabic", te |-> "Telugu"]
\* language_map.get(code, code): the code itself as the default
target_language_echo(code) ==
    IF code \in DOMAIN language_map THEN language_map[code] ELSE code
\* agents.py:81  language_map.get(target_language_code, "English")
target_language(code) ==
    IF code \in DOMAIN language_map THEN language_map[code] ELSE "English"
\* agents.py:73-88  LanguageTranslationAgent.get_prompt: the prompt text is
\* fixed but for the target language and the text to translate
translation_get_prompt(text_to_translate, code) ==
    [target |-> target_language(code), text |-> text_to_translate]
\* no translation prompt built (yet)
NoPrompt == [target |-> "", text |-> NoneValue]

\* history[-11:], a window off by one
TrimOffByOne(h) == SubSeq(h, IF Len(h) > HistoryWindow + 1 THEN Len(h) - HistoryWindow ELSE 1, Len(h))
\* history[:10], keeping the oldest turns
TrimOldest(h) == SubSeq(h, 1, IF Len(h) > HistoryWindow THEN HistoryWindow ELSE Len(h))
\* history[-10:]
Trim(h) == SubSeq(h, IF Len(h) > HistoryWindow THEN Len(h) - HistoryWindow + 1 ELSE 1, Len(h))


\* the assistant turn appended only when the call did not fail
AppendExchangeUnlessFailed(h, msg, res) ==
    IF res.tag = "error" THEN h \o <<Turn("user", Text(msg))>>
    ELSE h \o <<Turn("user", Text(msg)), Turn("assistant", res)>>
\* main.py:154-155  the two appends of one exchange
AppendExchange(h, msg, res) ==
    h \o <<Turn("user", Text(msg)), Turn("assistant", res)>>

(***************************************************************************)
(* Inputs.  Request r carries its own message text, so that the turns of   *)
(* different requests can be told apart in a history.                      *)
(***************************************************************************)
ReqMsgs == <<"I have a headache", "My stomach hurts", "I feel dizzy", "I have a fever", "My back hurts">>
ReqMsg(r) == ReqMsgs[((r - 1) % Len(ReqMsgs)) + 1]
Messages(r) == {"", ReqMsg(r)}
\* body.get("message") when the body has no "message" key (None)
AbsentMessage == "<no message key>"
EmptyMessages == {"", AbsentMessage}
SeqMessages(r) == Messages(r) \cup {AbsentMessage}

\* a test of "user_message is None" in place of the truth test
IsNoneMessage(msg) == msg = AbsentMessage
\* not user_message (main.py:120): true of None and of ""
not_user_message(msg) == msg = AbsentMessage \/ msg = ""

Languages == {"en", "en-US", "es", "xx"}
GateOutcomes == UpFailures \cup {UpText(t) : t \in GateTexts}
AnalysisOutcomes == UpFailures \cup {UpText(AnalysisText)}
TranslationOutcomes == UpFailures \cup {UpText(TranslatedText), UpText(TranslatedWithError)}

\* the smaller input sets of the concurrent specification
ConcLanguages == {"en", "es"}
ConcGateOutcomes == {UpText(GateTrue), UpText(GateFalse), UpStatus}
ConcAnalysisOutcomes == {UpText(AnalysisText), UpStatus}
ConcTranslationOutcomes == {UpText(TranslatedText), UpStatus}

(***************************************************************************)
(* Units of the video connection: a JSON object with an optional "image"   *)
(* and an optional "prompt", or a frame that is not a JSON object.         *)
(***************************************************************************)
AbsentField == "<no such key>"
DefaultVisualPrompt == "Analyze the user's visual state and emotion."
VisualText == "The user appears to be smiling."
Unit(image, prompt) == [kind |-> "object", image |-> image, prompt |-> prompt]
BadUnit == [kind |-> "bad", image |-> AbsentField, prompt |-> AbsentField]
NoUnit == [kind |-> "none", image |-> AbsentField, prompt |-> AbsentField]
Units == {Unit(AbsentField, AbsentField), Unit("", "Is this a rash?"),
          Unit("frameA", AbsentField), Unit("frameB", "Is this a rash?"), BadUnit}
VideoOutcomes == {UpText(VisualText), UpNoText, UpStatus}

\* a test of "image_data is None" in place of the truth test
image_is_none(image) == image = AbsentField
\* not image_data (main.py:185): true of None and of ""
not_image_data(image) == image = AbsentField \/ image = ""
\* data.get("prompt", "Analyze the user's visual state and emotion.")
prompt_text(unit) == IF unit.prompt = AbsentField THEN DefaultVisualPrompt ELSE unit.prompt

(***************************************************************************)
(* State.                                                                  *)
(*   API_KEY          whether GEMINI_API_KEY is set (read once at import)  *)
(*   heap             the list objects; a reference is an index, 0 is no   *)
(*                    object                                               *)
(*   chat_sessions    session id -> reference (0: key absent)              *)
(*   pc               where each request's coroutine is suspended          *)
(*   user_message .. translated_text   the handler's locals, per request   *)
(*   translation_prompt   the prompt handed to the translation call        *)
(*   reply            the JSON body the request returned                   *)
(*   trace            per request, the prompt builders and client calls it *)
(*                    has made so far, in order ("post" is the HTTP POST)  *)
(*   log              per session, every turn ever appended, in the order  *)
(*                    of the appends (history variable of the model)       *)
(*   read_at          per request, how many turns its session's log held   *)
(*                    when it read chat_sessions[session_id] at main.py:149 *)
(*                    (history variable of the model; -1 before the read)  *)
(*   ws_pc            where the /ws/video handler is suspended             *)
(*   peer_open        the client has not disconnected                      *)
(*   inbound          units the client has sent that are not yet received  *)
(*   received         the units receive_json has returned, in order        *)
(*                    (history variable of the model)                      *)
(*   data, visual_analysis_response   the handler's locals                 *)
(*   outbound         the units send_json has sent, in order; "of" is the  *)
(*                    position in received of the unit it answers (history *)
(*                    field of the model)                                  *)
(*   ws_close         how the handler ended: "" (running), "disconnect"    *)
(*                    (WebSocketDisconnect) or "1011 ..." (close(code=1011) *)
(*                    with the exception as its reason)                    *)
(***************************************************************************)
VARIABLES API_KEY, heap, chat_sessions, pc, user_message, session_id, language,
          guard_response_str, refusal_message, history, ai_response,
          translated_text, translation_prompt, reply, trace, log, read_at,
          ws_pc, peer_open, inbound, received, data, visual_analysis_response,
          outbound, ws_close

\* the /ws/video connection
video == <<ws_pc, peer_open, inbound, received, data, visual_analysis_response,
           outbound, ws_close>>
locals == <<user_message, session_id, language, guard_response_str,
            refusal_message, history, ai_response, translated_text,
            translation_prompt>>
store == <<heap, chat_sessions, log>>
vars == <<API_KEY, heap, chat_sessions, pc, user_message, session_id, language,
          guard_response_str, refusal_message, history, ai_response,
          translated_text, translation_prompt, reply, trace, log, read_at,
          ws_pc, peer_open, inbound, received, data, visual_analysis_response,
          outbound, ws_close>>

\* the exchanges completed before the run starts, as the handler stored them
PreMsgs == <<"p1", "p2", "p3", "p4", "p5", "p6", "p7", "p8">>
PreMsg(i) == PreMsgs[((i - 1) % Len(PreMsgs)) + 1]
RECURSIVE PreLog(_)
PreLog(k) == IF k = 0 THEN <<>>
             ELSE AppendExchange(PreLog(k - 1), PreMsg(k), Text(AnalysisText))
RECURSIVE PreHistory(_)
PreHistory(k) == IF k = 0 THEN <<>>
                 ELSE Trim(AppendExchange(PreHistory(k - 1), PreMsg(k), Text(AnalysisText)))
PreChoices == {0, MaxPre - 1, MaxPre}

Init ==
    /\ API_KEY \in BOOLEAN
    /\ \E k \in PreChoices :
         /\ (~API_KEY => k = 0)
         /\ heap = IF k = 0 THEN <<>> ELSE <<PreHistory(k)>>
         /\ chat_sessions = [s \in SessionIds |-> IF s = "s1" /\ k > 0 THEN 1 ELSE 0]
         /\ log = [s \in SessionIds |-> IF s = "s1" THEN PreLog(k) ELSE <<>>]
    /\ pc = [r \in Reqs |-> "idle"]
    /\ user_message = [r \in Reqs |-> ""]
    /\ session_id = [r \in Reqs |-> ""]
    /\ language = [r \in Reqs |-> ""]
    /\ guard_response_str = [r \in Reqs |-> NoneValue]
    /\ refusal_message = [r \in Reqs |-> NoneValue]
    /\ history = [r \in Reqs |-> 0]
    /\ ai_response = [r \in Reqs |-> NoneValue]
    /\ translated_text = [r \in Reqs |-> NoneValue]
    /\ translation_prompt = [r \in Reqs |-> NoPrompt]
    /\ reply = [r \in Reqs |-> NoResponse]
    /\ trace = [r \in Reqs |-> <<>>]
    /\ read_at = [r \in Reqs |-> -1]
    /\ ws_pc = "accept"
    /\ peer_open = TRUE
    /\ inbound = <<>>
    /\ received = <<>>
    /\ data = NoUnit
    /\ visual_analysis_response = NoneValue
    /\ outbound = <<>>
    /\ ws_close = ""

\* one call of call_gemini_api: the call itself and, when a key is set, its POST
Issue(call) == <<call>> \o (IF API_KEY THEN <<"post">> ELSE <<>>)

\* main.py:115-127  read the body, reject an empty message, issue the gate call
Start(r, msg, sid, lang) ==
    /\ pc[r] = "idle"
    /\ \A q \in Reqs : q < r => pc[q] # "idle"
    /\ user_message' = [user_message EXCEPT ![r] = msg]
    /\ session_id' = [session_id EXCEPT ![r] = sid]
    /\ language' = [language EXCEPT ![r] = lang]
    /\ IF not_user_message(msg)
       THEN /\ pc' = [pc EXCEPT ![r] = "done"]
            /\ reply' = [reply EXCEPT ![r] = ErrorBody(EmptyMessageError)]
            /\ UNCHANGED trace
       ELSE /\ pc' = [pc EXCEPT ![r] = "gate"]
            /\ trace' = [trace EXCEPT ![r] = <<"guard_prompt">> \o Issue("call_gate")]
            /\ UNCHANGED reply
    /\ UNCHANGED <<video, API_KEY, store, guard_response_str, refusal_message, history,
                   ai_response, translated_text, translation_prompt, read_at>>

\* main.py:127-151  the gate call returns: parse it and branch
GateReturn(r, up) ==
    /\ pc[r] = "gate"
    /\ LET res == call_gemini_api(API_KEY, up)
           guard_response == json_loads(res)
           sid == session_id[r]
           fresh == chat_sessions[sid] = 0
       IN /\ guard_response_str' = [guard_response_str EXCEPT ![r] = res]
          /\ CASE guard_response.exc # "" ->
                    \* except (json.JSONDecodeError, TypeError)
                    /\ pc' = [pc EXCEPT ![r] = "done"]
                    /\ reply' = [reply EXCEPT ![r] = ReplyBody(Text(TroubleReply))]
                    /\ UNCHANGED <<store, refusal_message, history, trace,
                                   translation_prompt, read_at>>
               [] guard_response.exc = "" /\ guard_response.type # "dict" ->
                    \* guard_response.get raises AttributeError, caught by nobody
                    /\ pc' = [pc EXCEPT ![r] = "raised"]
                    /\ UNCHANGED <<store, refusal_message, history, trace, reply,
                                   translation_prompt, read_at>>
               [] guard_response.exc = "" /\ guard_response.type = "dict"
                    /\ ~Truthy(guard_response.is_medical) ->
                    /\ refusal_message' = [refusal_message EXCEPT ![r] = Text(RefusalMessage)]
                    /\ IF NeedsRefusalTranslation(language[r])
                       THEN /\ pc' = [pc EXCEPT ![r] = "refusal_translation"]
                            /\ translation_prompt' = [translation_prompt EXCEPT ![r] =
                                   translation_get_prompt(Text(RefusalMessage), language[r])]
                            /\ trace' = [trace EXCEPT ![r] =
                                   @ \o <<"translation_prompt">> \o Issue("call_translation")]
                            /\ UNCHANGED reply
                       ELSE /\ pc' = [pc EXCEPT ![r] = "done"]
                            /\ reply' = [reply EXCEPT ![r] = ReplyBody(Text(RefusalMessage))]
                            /\ UNCHANGED <<trace, translation_prompt>>
                    /\ UNCHANGED <<store, history, read_at>>
               [] OTHER ->
                    /\ heap' = IF fresh THEN Append(heap, <<>>) ELSE heap
                    /\ chat_sessions' = IF fresh
                                        THEN [chat_sessions EXCEPT ![sid] = Len(heap) + 1]
                                        ELSE chat_sessions
                    /\ history' = [history EXCEPT ![r] = chat_sessions'[sid]]
                    /\ read_at' = [read_at EXCEPT ![r] = Len(log[sid])]
                    /\ pc' = [pc EXCEPT ![r] = "analysis"]
                    /\ trace' = [trace EXCEPT ![r] =
                           @ \o <<"analysis_prompt">> \o Issue("call_analysis")]
                    /\ UNCHANGED <<log, refusal_message, reply, translation_prompt>>
    /\ UNCHANGED <<video, API_KEY, user_message, session_id, language, ai_response,
                   translated_text>>

\* main.py:140-141  the translation of the refusal returns
RefusalTranslationReturn(r, up) ==
    /\ pc[r] = "refusal_translation"
    /\ LET res == call_gemini_api(API_KEY, up)
       IN /\ refusal_message' = [refusal_message EXCEPT ![r] = res]
          /\ reply' = [reply EXCEPT ![r] = ReplyBody(res)]
    /\ pc' = [pc EXCEPT ![r] = "done"]
    /\ UNCHANGED <<video, API_KEY, store, user_message, session_id, language,
                   guard_response_str, history, ai_response, translated_text,
                   translation_prompt, trace, read_at>>

\* the two turns put on a new list (history = history + [...]) in place of
\* the appends to the list the request read
AnalysisReturnRebinds(r, up) ==
    /\ pc[r] = "analysis"
    /\ LET res == call_gemini_api(API_KEY, up)
           sid == session_id[r]
           appended == AppendExchange(heap[history[r]], user_message[r], res)
       IN /\ ai_response' = [ai_response EXCEPT ![r] = res]
          /\ heap' = Append(heap, Trim(appended))
          /\ chat_sessions' = [chat_sessions EXCEPT ![sid] = Len(heap) + 1]
          /\ log' = [log EXCEPT ![sid] = AppendExchange(@, user_message[r], res)]
          /\ IF NeedsTranslation(language[r])
             THEN /\ pc' = [pc EXCEPT ![r] = "translation"]
                  /\ translation_prompt' = [translation_prompt EXCEPT ![r] =
                         translation_get_prompt(res, language[r])]
                  /\ trace' = [trace EXCEPT ![r] =
                         @ \o <<"translation_prompt">> \o Issue("call_translation")]
                  /\ UNCHANGED reply
             ELSE /\ pc' = [pc EXCEPT ![r] = "done"]
                  /\ reply' = [reply EXCEPT ![r] = ReplyBody(res)]
                  /\ UNCHANGED <<trace, translation_prompt>>
    /\ UNCHANGED <<video, API_KEY, user_message, session_id, language, guard_response_str,
                   refusal_message, history, translated_text, read_at>>

\* main.py:151-167  the analysis call returns: update the history, then
\* return or issue the translation call
AnalysisReturn(r, up) ==
    /\ pc[r] = "analysis"
    /\ LET res == call_gemini_api(API_KEY, up)
           sid == session_id[r]
           appended == AppendExchange(heap[history[r]], user_message[r], res)
       IN /\ ai_response' = [ai_response EXCEPT ![r] = res]
          /\ heap' = Append([heap EXCEPT ![history[r]] = appended], Trim(appended))
          /\ chat_sessions' = [chat_sessions EXCEPT ![sid] = Len(heap) + 1]
          /\ log' = [log EXCEPT ![sid] = AppendExchange(@, user_message[r], res)]
          /\ IF NeedsTranslation(language[r])
             THEN /\ pc' = [pc EXCEPT ![r] = "translation"]
                  /\ translation_prompt' = [translation_prompt EXCEPT ![r] =
                         translation_get_prompt(res, language[r])]
                  /\ trace' = [trace EXCEPT ![r] =
                         @ \o <<"translation_prompt">> \o Issue("call_translation")]
                  /\ UNCHANGED reply
             ELSE /\ pc' = [pc EXCEPT ![r] = "done"]
                  /\ reply' = [reply EXCEPT ![r] = ReplyBody(res)]
                  /\ UNCHANGED <<trace, translation_prompt>>
    /\ UNCHANGED <<video, API_KEY, user_message, session_id, language, guard_response_str,
                   refusal_message, history, translated_text, read_at>>

\* the stored assistant turn rewritten with the translation that was sent
TranslationReturnStoresReply(r, up) ==
    /\ pc[r] = "translation"
    /\ LET res == call_gemini_api(API_KEY, up)
           sid == session_id[r]
           cur == heap[chat_sessions[sid]]
       IN /\ translated_text' = [translated_text EXCEPT ![r] = res]
          /\ IF res.tag = "none"
             THEN /\ pc' = [pc EXCEPT ![r] = "raised"]
                  /\ UNCHANGED <<reply, heap>>
             ELSE /\ pc' = [pc EXCEPT ![r] = "done"]
                  /\ reply' = [reply EXCEPT ![r] =
                         ReplyBody(IF ContainsError(res) THEN ai_response[r] ELSE res)]
                  /\ heap' = [heap EXCEPT ![chat_sessions[sid]] =
                         [cur EXCEPT ![Len(cur)] = Turn("assistant", reply'[r].val)]]
    /\ UNCHANGED <<video, API_KEY, chat_sessions, log, user_message, session_id, language,
                   guard_response_str, refusal_message, history, ai_response,
                   translation_prompt, trace, read_at>>

\* main.py:163-167  the translation of the analysis returns
TranslationReturn(r, up) ==
    /\ pc[r] = "translation"
    /\ LET res == call_gemini_api(API_KEY, up)
       IN /\ translated_text' = [translated_text EXCEPT ![r] = res]
          /\ IF res.tag = "none"
             THEN \* "error" not in None raises TypeError, caught by nobody
                  /\ pc' = [pc EXCEPT ![r] = "raised"]
                  /\ UNCHANGED reply
             ELSE /\ pc' = [pc EXCEPT ![r] = "done"]
                  /\ reply' = [reply EXCEPT ![r] =
                         ReplyBody(IF ContainsError(res) THEN ai_response[r] ELSE res)]
    /\ UNCHANGED <<video, API_KEY, store, user_message, session_id, language,
                   guard_response_str, refusal_message, history, ai_response,
                   translation_prompt, trace, read_at>>

\* the handler has returned (or raised) and its response is sent: the
\* coroutine's frame is released
Close(r) ==
    /\ pc[r] \in {"done", "raised"}
    /\ pc' = [pc EXCEPT ![r] = "closed"]
    /\ user_message' = [user_message EXCEPT ![r] = ""]
    /\ session_id' = [session_id EXCEPT ![r] = ""]
    /\ language' = [language EXCEPT ![r] = ""]
    /\ guard_response_str' = [guard_response_str EXCEPT ![r] = NoneValue]
    /\ refusal_message' = [refusal_message EXCEPT ![r] = NoneValue]
    /\ history' = [history EXCEPT ![r] = 0]
    /\ ai_response' = [ai_response EXCEPT ![r] = NoneValue]
    /\ translated_text' = [translated_text EXCEPT ![r] = NoneValue]
    /\ translation_prompt' = [translation_prompt EXCEPT ![r] = NoPrompt]
    /\ reply' = [reply EXCEPT ![r] = NoResponse]
    /\ trace' = [trace EXCEPT ![r] = <<>>]
    /\ read_at' = [read_at EXCEPT ![r] = -1]
    /\ UNCHANGED <<video, API_KEY, store>>

(***************************************************************************)
(* /ws/video: main.py:170-203                                              *)
(***************************************************************************)
\* the client sends one more unit
ClientSend(unit) ==
    /\ peer_open
    /\ ws_close = ""
    /\ Len(received) + Len(inbound) < MaxFrames
    /\ inbound' = Append(inbound, unit)
    /\ UNCHANGED <<ws_pc, peer_open, received, data, visual_analysis_response,
                   outbound, ws_close>>

\* the client goes away
ClientDisconnect ==
    /\ peer_open
    /\ peer_open' = FALSE
    /\ UNCHANGED <<ws_pc, inbound, received, data, visual_analysis_response,
                   outbound, ws_close>>

\* main.py:177  await websocket.accept()
Accept ==
    /\ ws_pc = "accept"
    /\ ws_pc' = "receive"
    /\ UNCHANGED <<peer_open, inbound, received, data, visual_analysis_response,
                   outbound, ws_close>>

\* main.py:181-194  receive_json returns a unit: skip it, or issue the analysis
\* call; a frame that is no JSON object raises and ends in close(code=1011)
Receive ==
    /\ ws_pc = "receive"
    /\ inbound # <<>>
    /\ LET unit == Head(inbound)
       IN /\ inbound' = Tail(inbound)
          /\ IF unit.kind = "bad"
             THEN /\ ws_pc' = "closed"
                  /\ ws_close' = "1011 receive failed"
                  /\ UNCHANGED <<received, data>>
             ELSE /\ received' = Append(received, unit)
                  /\ data' = unit
                  /\ ws_pc' = IF not_image_data(unit.image) THEN "receive" ELSE "analysis"
                  /\ UNCHANGED ws_close
    /\ UNCHANGED <<peer_open, visual_analysis_response, outbound>>

\* main.py:181,199-200  receive_json raises WebSocketDisconnect
ReceiveDisconnect ==
    /\ ws_pc = "receive"
    /\ inbound = <<>>
    /\ ~peer_open
    /\ ws_pc' = "closed"
    /\ ws_close' = "disconnect"
    /\ UNCHANGED <<peer_open, inbound, received, data, visual_analysis_response,
                   outbound>>

\* main.py:190-194  the analysis call returns
VisualAnalysisReturn(up) ==
    /\ ws_pc = "analysis"
    /\ visual_analysis_response' = call_gemini_api(API_KEY, up)
    /\ ws_pc' = "send"
    /\ UNCHANGED <<peer_open, inbound, received, data, outbound, ws_close>>

\* main.py:197  send_json({"analysis": ...}); it raises when the client is
\* gone, which ends in close(code=1011)
Send ==
    /\ ws_pc = "send"
    /\ IF peer_open
       THEN /\ outbound' = Append(outbound, [analysis |-> visual_analysis_response,
                                             of |-> Len(received)])
            /\ ws_pc' = "receive"
            /\ UNCHANGED ws_close
       ELSE /\ ws_pc' = "closed"
            /\ ws_close' = "1011 send failed"
            /\ UNCHANGED outbound
    /\ UNCHANGED <<peer_open, inbound, received, data, visual_analysis_response>>

chat == <<API_KEY, heap, chat_sessions, pc, user_message, session_id, language,
          guard_response_str, refusal_message, history, ai_response,
          translated_text, translation_prompt, reply, trace, log, read_at>>

(***************************************************************************)
(* SpecVideo: one video connection, its client and its handler.            *)
(***************************************************************************)
NextVideo ==
    \/ \E unit \in Units : ClientSend(unit) /\ UNCHANGED chat
    \/ ClientDisconnect /\ UNCHANGED chat
    \/ Accept /\ UNCHANGED chat
    \/ Receive /\ UNCHANGED chat
    \/ ReceiveDisconnect /\ UNCHANGED chat
    \/ \E up \in VideoOutcomes : VisualAnalysisReturn(up) /\ UNCHANGED chat
    \/ Send /\ UNCHANGED chat

SpecVideo == Init /\ [][NextVideo]_vars

\* no request is between its first and its last step
NoneInFlight == \A q \in Reqs : pc[q] \in {"idle", "closed"}

(***************************************************************************)
(* Spec: requests overlap; any request may take its next step whenever its *)
(* awaited call returns (asyncio's cooperative scheduling).                *)
(***************************************************************************)
Next ==
    \/ \E r \in Reqs : \E msg \in Messages(r), sid \in SessionIds, lang \in ConcLanguages :
         Start(r, msg, sid, lang)
    \/ \E r \in Reqs, up \in ConcGateOutcomes : GateReturn(r, up)
    \/ \E r \in Reqs, up \in ConcTranslationOutcomes : RefusalTranslationReturn(r, up)
    \/ \E r \in Reqs, up \in ConcAnalysisOutcomes : AnalysisReturn(r, up)
    \/ \E r \in Reqs, up \in ConcTranslationOutcomes : TranslationReturn(r, up)
    \/ \E r \in Reqs : Close(r)

Spec == Init /\ [][Next]_vars

(***************************************************************************)
(* SpecSeq: requests run one after another (a request arrives only when    *)
(* the one before it has finished), with every language and every upstream *)
(* outcome.                                                                *)
(***************************************************************************)
NextSeq ==
    \/ \E r \in Reqs : \E msg \in SeqMessages(r), sid \in SessionIds, lang \in Languages :
         NoneInFlight /\ Start(r, msg, sid, lang)
    \/ \E r \in Reqs, up \in GateOutcomes : GateReturn(r, up)
    \/ \E r \in Reqs, up \in TranslationOutcomes : RefusalTranslationReturn(r, up)
    \/ \E r \in Reqs, up \in AnalysisOutcomes : AnalysisReturn(r, up)
    \/ \E r \in Reqs, up \in TranslationOutcomes : TranslationReturn(r, up)
    \/ \E r \in Reqs : Close(r)

SpecSeq == Init /\ [][NextSeq]_vars

TypeOK ==
    /\ API_KEY \in BOOLEAN
    /\ \A s \in SessionIds : chat_sessions[s] \in 0..Len(heap)
    /\ \A r \in Reqs : history[r] \in 0..Len(heap)
    /\ \A r \in Reqs : pc[r] \in {"idle", "gate", "refusal_translation", "analysis",
                                   "translation", "done", "raised", "closed"}


(***************************************************************************)
(* Vocabulary of the properties.                                           *)
(***************************************************************************)
\* the list stored for session s (empty when the key is absent)
Stored(s) == IF chat_sessions[s] = 0 THEN <<>> ELSE heap[chat_sessions[s]]
\* the last n elements of q
LastN(q, n) == [i \in 1..n |-> q[Len(q) - n + i]]
Min(a, b) == IF a < b THEN a ELSE b
\* number of occurrences of event e in a trace
Count(t, e) == Cardinality({i \in DOMAIN t : t[i] = e})
\* request r has received the gate call's result
Gated(r) == pc[r] \notin {"idle", "gate", "closed"} /\ user_message[r] \notin EmptyMessages
\* the gate call returned text that parses to an object with is_medical = b
GateSaid(v, b) ==
    /\ v.tag = "text"
    /\ json_loads(v).exc = ""
    /\ json_loads(v).type = "dict"
    /\ json_loads(v).is_medical = b
\* the gate call returned an error payload, no text, or text that is not a
\* JSON object carrying a boolean is_medical
GateFailed(v) == ~GateSaid(v, "true") /\ ~GateSaid(v, "false")
\* the gate call returned an error payload, no text, or text that is not JSON
GateUnparsed(v) == v.tag # "text" \/ json_loads(v).exc # ""
OnRefusalPath(r) == Gated(r) /\ refusal_message[r] # NoneValue
OnAnalysisPath(r) == Gated(r) /\ Count(trace[r], "call_analysis") > 0
English == {"en", "en-US"}
SupportedLanguages == {"es", "hi", "fr", "de", "zh", "ja", "ru", "ar", "te"}

(***************************************************************************)
(* C1: in every reachable state, with requests overlapping at their        *)
(* awaits, the list stored in chat_sessions for every session id has at    *)
(* most 10 turns.                                                          *)
(***************************************************************************)
C1_WindowBound ==
    \A s \in SessionIds : Len(Stored(s)) <= 10

\* two requests that read the same full list of s1 have both appended to it
C1_Witness ==
    \E r1, r2 \in Reqs :
        /\ r1 # r2
        /\ pc[r1] \in {"done", "translation"} /\ pc[r2] \in {"done", "translation"}
        /\ history[r1] # 0 /\ history[r1] = history[r2]
        /\ Len(heap[history[r1]]) > 10 + 2
        /\ Len(Stored("s1")) = 10

(***************************************************************************)
(* C2: after N medical requests run one after another on a session, the    *)
(* stored history is the last min(2N, 10) turns of user_1, assistant_1,    *)
(* ..., user_N, assistant_N, in that order.                                *)
(***************************************************************************)
C2_SequentialHistory ==
    \A s \in SessionIds :
        Stored(s) = LastN(log[s], Min(Len(log[s]), 10))

\* the second request of the run has completed on s1, whose window was
\* already full before the run: turns of two different requests were evicted
C2_Witness ==
    /\ Len(log["s1"]) >= 10 + 4
    /\ \E r \in Reqs : pc[r] = "done" /\ session_id[r] = "s1" /\ OnAnalysisPath(r)
    /\ Stored("s1")[1] # log["s1"][1]

(***************************************************************************)
(* C3: a request whose gate call returned is_medical false never invokes   *)
(* symptom_analysis_agent.get_prompt nor the analysis upstream call.       *)
(***************************************************************************)
C3_GateFalseNoAnalysis ==
    \A r \in Reqs :
        (Gated(r) /\ GateSaid(guard_response_str[r], "false")) =>
            /\ Count(trace[r], "analysis_prompt") = 0
            /\ Count(trace[r], "call_analysis") = 0
            /\ pc[r] \notin {"analysis", "translation"}

\* a request refused by the gate has returned its reply
C3_Witness ==
    \E r \in Reqs :
        /\ pc[r] = "done"
        /\ GateSaid(guard_response_str[r], "false")
        /\ reply[r].key = "reply"

(***************************************************************************)
(* C4: the steps of a request that ends without reaching the analysis      *)
(* (empty message, gate failure, gate answering is_medical false) leave    *)
(* chat_sessions and every stored list unchanged; with language "en" and   *)
(* a false gate result the reply is the fixed refusal string.              *)
(***************************************************************************)
C4_RefusedStep(r) ==
    \/ pc[r] = "idle" /\ pc'[r] = "done"
    \/ /\ pc[r] = "gate" /\ pc'[r] # "gate"
       /\ \/ GateUnparsed(guard_response_str'[r])
          \/ GateSaid(guard_response_str'[r], "false")
    \/ pc[r] = "refusal_translation" /\ pc'[r] = "done"

C4_EnglishRefusal ==
    \A r \in Reqs :
        (pc[r] = "done" /\ language[r] = "en" /\ GateSaid(guard_response_str[r], "false"))
            => reply[r] = ReplyBody(Text(RefusalMessage))

C4_NoHistoryMutation ==
    /\ []C4_EnglishRefusal
    /\ [][\A r \in Reqs : C4_RefusedStep(r) =>
              (chat_sessions' = chat_sessions /\ heap' = heap)]_vars

\* a request in English was refused while session s1 holds turns
C4_Witness ==
    \E r \in Reqs :
        /\ pc[r] = "done"
        /\ language[r] = "en"
        /\ GateSaid(guard_response_str[r], "false")
        /\ Len(Stored("s1")) > 0

(***************************************************************************)
(* C5: on the refusal path and on the analysis path alike, language "en"   *)
(* or "en-US" never triggers a translation call and every other supported  *)
(* language triggers exactly one.                                          *)
(***************************************************************************)
C5_TranslationIdempotence ==
    \A r \in Reqs :
        (pc[r] = "done" /\ (OnRefusalPath(r) \/ OnAnalysisPath(r))) =>
            /\ language[r] \in English => Count(trace[r], "call_translation") = 0
            /\ language[r] \in SupportedLanguages => Count(trace[r], "call_translation") = 1

(***************************************************************************)
(* C6: for a medical request in a non-English language whose translation   *)
(* call returns an error payload, the reply is the analysis result and is  *)
(* never an error object.                                                  *)
(***************************************************************************)
C6_TranslationFallback ==
    \A r \in Reqs :
        (/\ pc[r] = "done"
         /\ OnAnalysisPath(r)
         /\ language[r] \notin English
         /\ translated_text[r].tag = "error") =>
            /\ reply[r] = ReplyBody(ai_response[r])
            /\ reply[r].val.tag # "error"

(***************************************************************************)
(* C7: when the gate answers is_medical false, the language is not English *)
(* and the translation of the refusal fails, the reply is the untranslated *)
(* fixed refusal string.                                                   *)
(***************************************************************************)
C7_RefusalFallback ==
    \A r \in Reqs :
        (/\ pc[r] = "done"
         /\ GateSaid(guard_response_str[r], "false")
         /\ language[r] \notin English
         /\ refusal_message[r].tag = "error") =>
            reply[r] = ReplyBody(Text(RefusalMessage))

(***************************************************************************)
(* C8: for every non-empty request and every outcome of its upstream       *)
(* calls, the handler finishes without an uncaught exception and the reply *)
(* is a text string, never an error payload of the completion client.      *)
(***************************************************************************)
C8_ReplyIsText ==
    \A r \in Reqs :
        /\ pc[r] # "raised"
        /\ (pc[r] = "done" /\ user_message[r] \notin EmptyMessages) =>
               (reply[r].key = "reply" /\ reply[r].val.tag = "text")

(***************************************************************************)
(* C9: whenever the gate call returns an error payload or text that is not *)
(* a JSON object carrying a boolean is_medical, the request ends with the  *)
(* "trouble understanding" reply and takes neither the refusal branch nor  *)
(* the analysis branch.                                                    *)
(***************************************************************************)
C9_GateFailClosed ==
    \A r \in Reqs :
        (Gated(r) /\ GateFailed(guard_response_str[r])) =>
            /\ pc[r] = "done"
            /\ reply[r] = ReplyBody(Text(TroubleReply))
            /\ ~OnRefusalPath(r)
            /\ ~OnAnalysisPath(r)

(***************************************************************************)
(* C10: with no credential configured, every non-empty request returns,    *)
(* without raising and without a network call, a reply that says the       *)
(* credential is not configured.                                           *)
(***************************************************************************)
C10_MissingCredentialReply ==
    \A r \in Reqs :
        (~API_KEY /\ Gated(r)) =>
            /\ pc[r] = "done"
            /\ Count(trace[r], "post") = 0
            /\ reply[r].key = "reply"
            /\ reply[r].val.val = MissingKeyMessage

(***************************************************************************)
(* C11: a request whose message is empty or absent, whatever its language  *)
(* and session id, ends at once with {error: "Message cannot be empty."}   *)
(* and makes no upstream call.                                             *)
(***************************************************************************)
C11_EmptyMessage ==
    \A r \in Reqs :
        (pc[r] \notin {"idle", "closed"} /\ user_message[r] \in EmptyMessages) =>
            /\ pc[r] = "done"
            /\ reply[r] = ErrorBody(EmptyMessageError)
            /\ trace[r] = <<>>

\* a request with an empty message and a non-English language has returned
C11_Witness ==
    \E r \in Reqs :
        /\ pc[r] = "done"
        /\ user_message[r] = ""
        /\ language[r] = "es"
        /\ reply[r] = ErrorBody(EmptyMessageError)

(***************************************************************************)
(* C12 as stated: for a language code that is neither in the enumeration   *)
(* nor English, no translation prompt is built, no translation call is     *)
(* made and the reply is the untranslated text.                            *)
(***************************************************************************)
Unrecognized(code) == code \notin English /\ code \notin SupportedLanguages

IsCompletionResult(v) == v.tag \in {"text", "error"}

C13_ClientReturnsSumType ==
    \A r \in Reqs :
        /\ Gated(r) => IsCompletionResult(guard_response_str[r])
        /\ (OnAnalysisPath(r) /\ pc[r] # "analysis") => IsCompletionResult(ai_response[r])
        /\ (OnAnalysisPath(r) /\ pc[r] \in {"done", "raised"}
              /\ Count(trace[r], "call_translation") > 0) =>
               IsCompletionResult(translated_text[r])

(***************************************************************************)
(* C14: on one video connection the loop sends exactly one {analysis} unit *)
(* for each inbound unit that carries an image and none for a unit without *)
(* one, in the order of the inbound units, and receives the next inbound   *)
(* unit only after the outbound unit for the current one has been sent.    *)
(* (A unit whose send_json fails because the client is gone ends the       *)
(* connection; it is the last unit received.)                              *)
(***************************************************************************)
RECURSIVE ImageUnits(_)
\* the positions, among the first n received units, of those with an image
ImageUnits(n) ==
    IF n = 0 THEN <<>>
    ELSE IF received[n].image \in {"", AbsentField}
         THEN ImageUnits(n - 1)
         ELSE Append(ImageUnits(n - 1), n)
Answered == [i \in 1..Len(outbound) |-> outbound[i].of]
\* the handler has received a unit with an image and not sent its answer
Answering == ws_pc \in {"analysis", "send"} \/ ws_close = "1011 send failed"

C14_AnswersInOrder ==
    /\ ~Answering => Answered = ImageUnits(Len(received))
    /\ Answering =>
          /\ received[Len(received)].image \notin {"", AbsentField}
          /\ Answered = ImageUnits(Len(received) - 1)

C14_OneAnswerPerImage ==
    /\ []C14_AnswersInOrder
    /\ [][Len(received') > Len(received) =>
              (ws_pc = "receive" /\ Answered = ImageUnits(Len(received)))]_vars

\* two units with an image and one without have been received and the two
\* answers sent
C14_Witness ==
    /\ ws_pc = "receive"
    /\ Len(received) = 3
    /\ Len(outbound) = 2
    /\ Answered = <<1, 3>>

(***************************************************************************)
(* C15: within one request the upstream calls follow the order gate,       *)
(* analysis, translation, each at most once: the analysis call is issued   *)
(* only after the gate call has returned is_medical true, a translation    *)
(* call only after the gate call (refusal path) or the analysis call       *)
(* (medical path) has returned, and a refusal-path request never issues an *)
(* analysis call.                                                          *)
(***************************************************************************)
Issued(r, call) == Count(trace[r], call) > 0
\* position of the first occurrence of an event that is in the trace
Pos(r, call) == CHOOSE i \in DOMAIN trace[r] :
                    trace[r][i] = call /\ \A j \in 1..(i - 1) : trace[r][j] # call

C15_CallOrder ==
    \A r \in Reqs :
        /\ Count(trace[r], "call_gate") <= 1
        /\ Count(trace[r], "call_analysis") <= 1
        /\ Count(trace[r], "call_translation") <= 1
        /\ Issued(r, "call_analysis") =>
              /\ Issued(r, "call_gate")
              /\ Pos(r, "call_gate") < Pos(r, "call_analysis")
              /\ pc[r] # "gate"
              /\ GateSaid(guard_response_str[r], "true")
        /\ Issued(r, "call_translation") =>
              /\ Issued(r, "call_gate")
              /\ Pos(r, "call_gate") < Pos(r, "call_translation")
              /\ pc[r] \notin {"gate", "analysis"}
              /\ Issued(r, "call_analysis") =>
                     Pos(r, "call_analysis") < Pos(r, "call_translation")
        /\ OnRefusalPath(r) => ~Issued(r, "call_analysis")

(***************************************************************************)
(* C16: when the analysis call of a medical request returns, with text or  *)
(* with an error payload, exactly two turns are appended to the list the   *)
(* request read, before trimming: a user turn holding the message, then an *)
(* assistant turn holding the call's result; from an empty session the     *)
(* stored history grows by exactly these two turns.                        *)
(***************************************************************************)
C16_AnalysisReturned(r) == pc[r] = "analysis" /\ pc'[r] # "analysis"

C16_TwoTurnsAppended ==
    [][\A r \in Reqs : C16_AnalysisReturned(r) =>
          LET old == heap[history[r]]
              new == heap'[history[r]]
              sid == session_id[r]
          IN /\ Len(new) = Len(old) + 2
             /\ SubSeq(new, 1, Len(old)) = old
             /\ new[Len(old) + 1] = [role |-> "user", content |-> Text(user_message[r])]
             /\ new[Len(old) + 2] = [role |-> "assistant", content |-> ai_response'[r]]
             /\ old = <<>> =>
                   heap'[chat_sessions'[sid]] =
                       <<[role |-> "user", content |-> Text(user_message[r])],
                         [role |-> "assistant", content |-> ai_response'[r]]>>]_vars

\* a medical request on the empty session s1 whose analysis call failed has
\* stored its two turns
C16_Witness ==
    \E r \in Reqs :
        /\ pc[r] = "done"
        /\ session_id[r] = "s1"
        /\ ai_response[r].tag = "error"
        /\ Stored("s1") = <<[role |-> "user", content |-> Text(user_message[r])],
                            [role |-> "assistant", content |-> ai_response[r]]>>

(***************************************************************************)
(* C17: requests on one session that are suspended at the analysis await   *)
(* together can complete in an order other than the order they arrived in, *)
(* and the stored history then holds their pairs in completion order: when *)
(* a request completes after a later-arrived request that read the same    *)
(* list, the list ends with the later request's pair followed, last, by    *)
(* the earlier request's pair, and the stored history is its last 10       *)
(* turns.                                                                  *)
(***************************************************************************)
\* request r has its analysis call's result and its frame is still live
Completed(r) == pc[r] \in {"translation", "done", "raised"} /\ history[r] # 0
\* h holds at i, i+1 the pair of request r whose analysis call returned res
PairAt(h, i, r, res) ==
    /\ i \in 1..(Len(h) - 1)
    /\ h[i] = [role |-> "user", content |-> Text(user_message[r])]
    /\ h[i + 1] = [role |-> "assistant", content |-> res]

\* r1 arrived before r2, both read the same list, r2 has completed and r1
\* completes in this step
C17_Overtaken(r1, r2) ==
    /\ pc[r1] = "analysis" /\ pc'[r1] # "analysis"
    /\ r1 < r2
    /\ Completed(r2)
    /\ session_id[r1] = session_id[r2]
    /\ history[r1] = history[r2]

C17_Reordering ==
    [][\A r1, r2 \in Reqs : C17_Overtaken(r1, r2) =>
          LET h == heap'[history[r1]]
              st == heap'[chat_sessions'[session_id[r1]]]
          IN /\ PairAt(h, Len(h) - 1, r1, ai_response'[r1])
             /\ \E i \in 1..(Len(h) - 3) : PairAt(h, i, r2, ai_response[r2])
             /\ st = LastN(h, Min(Len(h), 10))]_vars

\* request 1 arrived first, request 2 completed first: the stored history of
\* their session ends with the pair of request 2, then the pair of request 1
C17_Witness ==
    /\ Completed(1) /\ Completed(2)
    /\ session_id[1] = session_id[2]
    /\ history[1] = history[2]
    /\ LET st == Stored(session_id[1])
       IN /\ Len(st) >= 4
          /\ PairAt(st, Len(st) - 3, 2, ai_response[2])
          /\ PairAt(st, Len(st) - 1, 1, ai_response[1])

(***************************************************************************)
(* C18: two requests on one session that read the session's history with   *)
(* no completion on that session between the two reads hold the same list  *)
(* object; when the second of them completes, the stored history ends with *)
(* its pair and holds the other's pair before it, unless five or more      *)
(* pairs were appended since; and a completed request's pair that is among *)
(* the session's last ten appended turns is missing from the stored        *)
(* history after a completion only if a request completed between that     *)
(* request's read and the completing request's read.                       *)
(***************************************************************************)
\* r1 and r2 read the history of the same session and no request completed
\* on that session between the two reads
C18_SameRead(r1, r2) ==
    /\ r1 # r2
    /\ read_at[r1] >= 0 /\ read_at[r1] = read_at[r2]
    /\ session_id[r1] = session_id[r2]
\* turn t is one of the last ten turns of q
InWindow(q, t) == \E i \in 1..Len(q) : i > Len(q) - 10 /\ q[i] = t
UserTurn(r) == [role |-> "user", content |-> Text(user_message[r])]

C18_SameListObject ==
    \A r1, r2 \in Reqs : C18_SameRead(r1, r2) => history[r1] = history[r2]

\* r completes in this step and q, on the same session, completed before
C18_CompletesAfter(r, q) ==
    /\ pc[r] = "analysis" /\ pc'[r] # "analysis"
    /\ q # r
    /\ Completed(q)
    /\ session_id[r] = session_id[q]

C18_BothStored ==
    \A r, q \in Reqs : (C18_CompletesAfter(r, q) /\ C18_SameRead(r, q)) =>
        LET sid == session_id[r]
            st == heap'[chat_sessions'[sid]]
        IN /\ PairAt(st, Len(st) - 1, r, ai_response'[r])
           /\ InWindow(log'[sid], UserTurn(q)) =>
                 \E i \in 1..(Len(st) - 3) : PairAt(st, i, q, ai_response[q])

C18_LostOnlyAcrossReads ==
    \A r, q \in Reqs : C18_CompletesAfter(r, q) =>
        LET sid == session_id[r]
            st == heap'[chat_sessions'[sid]]
        IN (/\ InWindow(log'[sid], UserTurn(q))
            /\ ~\E i \in 1..Len(st) : st[i] = UserTurn(q))
           => read_at[q] # read_at[r]

PairOfOneRequest(h, i, s) ==
    \E j \in 1..(Len(log[s]) - 1) :
        /\ j % 2 = 1
        /\ log[s][j] = h[i]
        /\ log[s][j + 1] = h[i + 1]

C19_AlternatingPairs ==
    \A s \in SessionIds :
        LET h == Stored(s)
        IN /\ Len(h) % 2 = 0
           /\ \A i \in 1..Len(h) :
                 IF i % 2 = 1
                 THEN h[i].role = "user" /\ PairOfOneRequest(h, i, s)
                 ELSE h[i].role = "assistant"

\* two requests that read the same full list of s1 have both completed: the
\* stored history ends with their two pairs
C19_Witness ==
    \E r1, r2 \in Reqs :
        /\ r1 # r2
        /\ pc[r1] = "done" /\ pc[r2] = "done"
        /\ history[r1] # 0 /\ history[r1] = history[r2]
        /\ Len(Stored("s1")) = 10
        /\ Stored("s1")[7].content = Text(user_message[r1])
        /\ Stored("s1")[9].content = Text(user_message[r2])

(***************************************************************************)
(* C20: the history is updated before the translation step and not touched *)
(* by it: the assistant turn stored for a request is the untranslated      *)
(* analysis result, and no outcome of a translation call changes           *)
(* chat_sessions or a stored list.                                         *)
(***************************************************************************)
C20_StoredUntranslated ==
    \A r \in Reqs :
        (OnAnalysisPath(r) /\ pc[r] \in {"translation", "done", "raised"}) =>
            LET h == Stored(session_id[r])
            IN /\ Len(h) >= 2
               /\ h[Len(h) - 1] = [role |-> "user", content |-> Text(user_message[r])]
               /\ h[Len(h)] = [role |-> "assistant", content |-> ai_response[r]]

C20_TranslationReturned(r) ==
    pc[r] \in {"translation", "refusal_translation"} /\ pc'[r] # pc[r]

C20_TranslationLeavesHistory ==
    /\ []C20_StoredUntranslated
    /\ [][\A r \in Reqs : C20_TranslationReturned(r) =>
              (chat_sessions' = chat_sessions /\ heap' = heap)]_vars

\* a medical request got a translated reply; its stored turn is the
\* untranslated analysis text
C20_Witness ==
    \E r \in Reqs :
        /\ pc[r] = "done"
        /\ OnAnalysisPath(r)
        /\ ai_response[r] = Text(AnalysisText)
        /\ reply[r] = ReplyBody(Text(TranslatedText))
        /\ Stored(session_id[r])[Len(Stored(session_id[r]))].content = Text(AnalysisText)

=============================================================================
